---- MODULE Spec2Model ----
(***************************************************************************)
(* The mDNS scan orchestrator of tauri-plugin-lan-scanner                  *)
(* (src/src/commands.rs, src/src/models.rs): the MdnsState shared state,   *)
(* the start_scan / stop_scan / is_scanning / get_discovered_devices       *)
(* commands, the per-service-type receiver tasks and the timeout task.     *)
(*                                                                         *)
(* Every tokio Mutex region that contains no await is one atomic step.     *)
(* The daemon mutex in stop_scan is held over several steps, because the   *)
(* guard is a temporary of the `if let` scrutinee (commands.rs:266-275).   *)
(* JoinHandle::abort only schedules a cancellation: it takes effect when   *)
(* the task is next suspended, and a task that is being polled runs on to  *)
(* its next suspension point.                                              *)
(***************************************************************************)
EXTENDS Integers, Sequences, FiniteSets, TLC

\* ---------------------------------------------------------------- bounds
NCallers == 2        \* concurrent host invocations
MaxSessions == 2     \* start_scan calls that get past the scanning flag
MaxClock == 1        \* largest reading of the monotonic clock
MaxCalls == 3        \* host invocations in a behaviour of the discovery runs
MaxEvents == 2       \* resolved events in a behaviour of the discovery runs
CountdownCalls == 2  \* host invocations in a behaviour of the countdown runs
MaxFaults == 1       \* backend failures in a behaviour of the fault runs
FairEvents == 1      \* resolved events in a behaviour of the fair discovery runs

\* ------------------------------------------------------ program constants
SCAN_DURATION_SECS == 30

BLUESOUND_SERVICE_TYPE == "_musc._tcp.local."
VOLUMIO_SERVICE_TYPE == "_http._tcp.local."
SPOTIFY_CONNECT_SERVICE_TYPE == "_spotify-connect._tcp.local."
QOBUZ_CONNECT_SERVICE_TYPE == "_qobuz-connect._tcp.local."

services_to_browse ==
    << BLUESOUND_SERVICE_TYPE, VOLUMIO_SERVICE_TYPE,
       SPOTIFY_CONNECT_SERVICE_TYPE, QOBUZ_CONNECT_SERVICE_TYPE >>

ServiceTypes == { services_to_browse[k] : k \in 1..Len(services_to_browse) }

\* ------------------------------------------------------------- processes
Callers == 1..NCallers
Sessions == 1..MaxSessions
\* The timeout task spawned by session s.
TimerOf(s) == NCallers + s
Timers == { TimerOf(s) : s \in Sessions }
SessionOf(p) == p - NCallers
Procs == Callers \cup Timers

\* ------------------------------------------------- addresses and events
\* A candidate address: IPv4 as four octets, IPv6 as eight groups.
AddrA == [v4 |-> TRUE, octets |-> <<10, 0, 0, 5>>]
AddrB == [v4 |-> TRUE, octets |-> <<10, 0, 0, 6>>]
AddrLL == [v4 |-> TRUE, octets |-> <<169, 254, 1, 1>>]
AddrV6 == [v4 |-> FALSE, octets |-> <<65152, 0, 0, 0, 0, 0, 0, 1>>]

\* No address taken for link-local.
never_link_local(a) == FALSE

\* Ipv4Addr::is_link_local: 169.254.0.0/16.
is_link_local(a) == a.octets[1] = 169 /\ a.octets[2] = 254

\* The closure of find_map: the address qualifies.
Qualifies(a) == a.v4 /\ ~is_link_local(a)

\* ip.to_string(): the dotted quad, one string per octet tuple.
to_string(a) ==
    CASE a.octets = <<10, 0, 0, 5>> -> "10.0.0.5"
      [] a.octets = <<10, 0, 0, 6>> -> "10.0.0.6"
      [] a.octets = <<169, 254, 1, 1>> -> "169.254.1.1"
      [] OTHER -> "fe80::1"

IpStrings == { "10.0.0.5", "10.0.0.6" }

\* get_fullname() is held as its '.'-separated labels; the test of line 36,
\* fullname.to_lowercase().contains("volumio"), is tabulated per instance name.
ContainsVolumio(fullname) == fullname[1] \in { "Volumio-Kitchen" }

\* The network: what answers the browse of each service type. One player
\* answers two service types from one address, and once more with another
\* port and a second address; the second service is first announced with
\* link-local and IPv6 addresses only; a web server that is no player answers
\* the second service type.
Adverts ==
    { [service_type |-> BLUESOUND_SERVICE_TYPE, addresses |-> {AddrA},
       port |-> 11000, fullname |-> <<"Node", "_musc", "_tcp", "local">>],
      [service_type |-> BLUESOUND_SERVICE_TYPE, addresses |-> {AddrA, AddrB},
       port |-> 11001, fullname |-> <<"Node", "_musc", "_tcp", "local">>],
      [service_type |-> VOLUMIO_SERVICE_TYPE, addresses |-> {AddrLL, AddrA},
       port |-> 80, fullname |-> <<"Volumio-Kitchen", "_http", "_tcp", "local">>],
      [service_type |-> VOLUMIO_SERVICE_TYPE, addresses |-> {AddrLL, AddrV6},
       port |-> 80, fullname |-> <<"Volumio-Kitchen", "_http", "_tcp", "local">>],
      [service_type |-> VOLUMIO_SERVICE_TYPE, addresses |-> {AddrB},
       port |-> 8080, fullname |-> <<"Printer", "_http", "_tcp", "local">>] }

\* The ResolvedService of an advertisement.
InfoOf(ad) == [addresses |-> ad.addresses, port |-> ad.port, fullname |-> ad.fullname]

Infos(st) == { InfoOf(ad) : ad \in { x \in Adverts : x.service_type = st } }

NoInfo == [addresses |-> {}, port |-> 0, fullname |-> <<"">>]

\* --------------------------------------------------------------- models.rs
DeviceTypes == { "Bluesound", "Volumio", "SpotifyConnect", "QobuzConnect", "Generic" }

\* resolve_device_type: always Some(..); the last arm also takes the
\* VOLUMIO_SERVICE_TYPE whose guard fails.
resolve_device_type(ty_domain, fullname) ==
    CASE ty_domain = BLUESOUND_SERVICE_TYPE -> "Bluesound"
      [] ty_domain = VOLUMIO_SERVICE_TYPE /\ ContainsVolumio(fullname) -> "Volumio"
      [] ty_domain = SPOTIFY_CONNECT_SERVICE_TYPE -> "SpotifyConnect"
      [] ty_domain = QOBUZ_CONNECT_SERVICE_TYPE -> "QobuzConnect"
      [] OTHER -> "Generic"

DiscoveredService(service_type, port, device_type, last_seen_ms) ==
    [service_type |-> service_type, port |-> port,
     device_type |-> device_type, last_seen_ms |-> last_seen_ms]

\* Indices of the entries of a service list with the given service type.
Matching(services, service_type) ==
    { k \in 1..Len(services) : services[k].service_type = service_type }

Least(S) == CHOOSE k \in S : \A j \in S : k <= j

\* A service list that only grows.
add_service(self, service_type, port, device_type, elapsed_ms) ==
    [self EXCEPT !.services =
        Append(@, DiscoveredService(service_type, port, device_type, elapsed_ms))]

\* Device::add_or_update_service: iter_mut().find takes the first match.
add_or_update_service(self, service_type, port, device_type, elapsed_ms) ==
    LET found == Matching(self.services, service_type) IN
    IF found # {}
    THEN [self EXCEPT !.services[Least(found)] =
             DiscoveredService(service_type, port, device_type, elapsed_ms)]
    ELSE [self EXCEPT !.services =
             Append(@, DiscoveredService(service_type, port, device_type, elapsed_ms))]

\* ------------------------------------------------------------ commands.rs
\* The HashMap<String, Device>: a function whose domain is the key set.
EmptyMap == [k \in {} |-> 0]

NoDevice == [name |-> "", ip |-> "", discovery_time_ms |-> 0, services |-> <<>>]

\* The comparison of line 106 the other way round.
LaterOf(discovery_time_ms, elapsed_ms) ==
    IF elapsed_ms > discovery_time_ms THEN elapsed_ms ELSE discovery_time_ms

\* The discovery time left as the first merge set it.
KeepDiscoveryTime(discovery_time_ms, elapsed_ms) == discovery_time_ms

\* Lines 106-108: the discovery time after a resolution at elapsed_ms.
EarlierOf(discovery_time_ms, elapsed_ms) ==
    IF elapsed_ms < discovery_time_ms THEN elapsed_ms ELSE discovery_time_ms

\* entry(ip).or_insert_with(..), the discovery-time and name updates,
\* add_or_update_service: the device left under key ip_string.
MergedDevice(devs, ip_string, name, service_type, port, device_type, elapsed_ms) ==
    LET inserted == IF ip_string \in DOMAIN devs
                    THEN devs[ip_string]
                    ELSE [name |-> name, ip |-> ip_string,
                          discovery_time_ms |-> elapsed_ms, services |-> <<>>]
        timed == [inserted EXCEPT !.discovery_time_ms = EarlierOf(@, elapsed_ms)]
        named == [timed EXCEPT !.name = name]
    IN add_or_update_service(named, service_type, port, device_type, elapsed_ms)

\* The map after the merge under the devices lock.
MergeInto(devs, ip_string, name, service_type, port, device_type, elapsed_ms) ==
    [k \in DOMAIN devs \cup {ip_string} |->
        IF k = ip_string
        THEN MergedDevice(devs, ip_string, name, service_type, port,
                          device_type, elapsed_ms)
        ELSE devs[k]]

\* format!("{ip_string}|{service_type}")
service_key(ip_string, service_type) == <<ip_string, service_type>>

\* fullname.split('.').next()
DisplayName(fullname) == fullname[1]

VARIABLES
    scanning,        \* MdnsState.scanning
    devices,         \* MdnsState.devices
    daemon,          \* MdnsState.daemon: 0 is None, d is Some(daemon d)
    timeout_task,    \* MdnsState.timeout_task: 0 is None, s is Some(handle of timer s)
    daemonLock,      \* holder of the daemon mutex across steps, 0 when free
    daemonStatus,    \* per daemon: "none", "running", "shutdown" (told to exit), "exited"
    pc,              \* per process: where it is
    ret,             \* per process: the Result of its command
    op,              \* per process: the command it is running or has just run
    reply,           \* per caller: the value a query command returned
    sess,            \* per caller: the session its start_scan is building
    mdns,            \* per process: the daemon stop_scan took out of the slot
    nSessions,       \* sessions begun so far
    timer_i,         \* per session: loop variable i of the timeout task
    aborted,         \* per session: abort() was called on its timeout task
    scan_start_time, \* per session: Instant::now() at line 189
    seen_services,   \* per session: the HashSet behind seen_services
    consumer,        \* per session and service type: the receiver task
    now,             \* the monotonic clock
    ticks,           \* per session: the scan-tick payloads emitted so far
    scan_stopped,    \* the scan-stopped notifications emitted so far
    new_device,      \* the new-device notifications emitted so far
    callsLeft, eventsLeft, pollsLeft, faultsLeft,   \* what the bounds still allow
    merged,          \* history: per address, the merges since the last clear
    clearedBy,       \* history: the session whose start_scan last cleared devices
    browseFailed,    \* history: per session, the service types whose browse failed
    abortedBy,       \* history: per session, who called abort() first: "none", "self",
                     \*   "start", "stop" (a host stop_scan), "timer" (another task's)
    invoked,         \* history: the caller of the latest host invocation
    stopsCalled,     \* history: host invocations of stop_scan so far
    ticksAtStop,     \* history: per session, the scan-ticks emitted when the host
                     \*   last invoked stop_scan with the flag set
    delivered        \* history: the resolved events delivered, with their outcome

state_vars == << scanning, devices, daemon, timeout_task >>
daemon_vars == << daemonLock, daemonStatus >>
proc_vars == << pc, ret, op, reply >>
local_vars == << sess, mdns, nSessions >>
timer_vars == << timer_i, aborted, abortedBy >>
session_vars == << scan_start_time, seen_services >>
emit_vars == << ticks, scan_stopped, new_device >>
budget_vars == << callsLeft, eventsLeft, pollsLeft, faultsLeft >>
history_vars == << merged, clearedBy, browseFailed >>
call_vars == << invoked, stopsCalled, ticksAtStop >>

vars == << state_vars, daemon_vars, proc_vars, local_vars, timer_vars,
           session_vars, consumer, now, emit_vars, budget_vars, history_vars,
           call_vars, delivered >>

ConsumerKeys == Sessions \X ServiceTypes

IdleConsumer(state) ==
    [pc |-> state, info |-> NoInfo, ip |-> "", elapsed_ms |-> 0]

NoReply == [op |-> "none", flag |-> FALSE, list |-> {}]

InitWith(calls, events, polls, faults) ==
    /\ scanning = FALSE
    /\ devices = EmptyMap
    /\ daemon = 0
    /\ timeout_task = 0
    /\ daemonLock = 0
    /\ daemonStatus = [d \in Sessions |-> "none"]
    /\ pc = [p \in Procs |-> IF p \in Callers THEN "idle" ELSE "unspawned"]
    /\ ret = [p \in Procs |-> "none"]
    /\ op = [p \in Procs |-> "none"]
    /\ reply = [c \in Callers |-> NoReply]
    /\ sess = [c \in Callers |-> 0]
    /\ mdns = [p \in Procs |-> 0]
    /\ nSessions = 0
    /\ timer_i = [s \in Sessions |-> 0]
    /\ aborted = [s \in Sessions |-> FALSE]
    /\ scan_start_time = [s \in Sessions |-> 0]
    /\ seen_services = [s \in Sessions |-> {}]
    /\ consumer = [k \in ConsumerKeys |-> IdleConsumer("unspawned")]
    /\ now = 0
    /\ ticks = [s \in Sessions |-> <<>>]
    /\ scan_stopped = <<>>
    /\ new_device = <<>>
    /\ callsLeft = calls
    /\ eventsLeft = events
    /\ pollsLeft = polls
    /\ faultsLeft = faults
    /\ merged = [a \in IpStrings |-> {}]
    /\ clearedBy = 0
    /\ browseFailed = [s \in Sessions |-> {}]
    /\ abortedBy = [s \in Sessions |-> "none"]
    /\ invoked = 0
    /\ stopsCalled = 0
    /\ ticksAtStop = [s \in Sessions |-> 0]
    /\ delivered = <<>>

\* MdnsState::default() at plugin setup (lib.rs:29). The behaviours explored
\* are of three kinds: discovery (events, no timer polls, no failures),
\* countdown (every session's timeout task can run to its end, no events) and
\* faults (backend failures).
Init ==
    \/ InitWith(MaxCalls, MaxEvents, 0, 0)
    \/ InitWith(CountdownCalls, 0, MaxSessions * (SCAN_DURATION_SECS + 1), 0)
    \/ InitWith(MaxCalls, 0, 0, MaxFaults)

\* ------------------------------------------------------------ start_scan
\* What a finished command leaves: a caller holds its Result until the host
\* invokes the next command, the timeout task ends.
FinishedPc(p) == IF p \in Callers THEN "returned" ELSE "finished"

\* A host invocation of command name by caller c.
Invoke(c, name) ==
    /\ pc[c] \in { "idle", "returned" }
    /\ callsLeft > 0
    /\ callsLeft' = callsLeft - 1
    /\ op' = [op EXCEPT ![c] = name]
    /\ invoked' = c
    /\ stopsCalled' = IF name = "stop_scan" THEN stopsCalled + 1 ELSE stopsCalled
    /\ ticksAtStop' = IF name = "stop_scan" /\ scanning
                      THEN [s \in Sessions |-> Len(ticks[s])] ELSE ticksAtStop

\* The abort() of lines 165-167 and 262-264 on the handle taken out of the slot.
AbortTaken(p, who) ==
    IF timeout_task = 0
    THEN UNCHANGED << aborted, abortedBy >>
    ELSE /\ aborted' = [aborted EXCEPT ![timeout_task] = TRUE]
         /\ abortedBy' = [abortedBy EXCEPT ![timeout_task] =
                IF @ # "none" THEN @
                ELSE IF p = TimerOf(timeout_task) THEN "self" ELSE who]

\* Lines 155-162 with the flag clear: the flag is set and the guard dropped.
StartTakeFlag(c) ==
    /\ nSessions < MaxSessions
    /\ scanning' = TRUE
    /\ nSessions' = nSessions + 1
    /\ sess' = [sess EXCEPT ![c] = nSessions + 1]
    /\ pc' = [pc EXCEPT ![c] = "start_abort"]
    /\ ret' = [ret EXCEPT ![c] = "none"]

\* start_scan without the early return of lines 157-160.
StartWithoutCheck(c) == StartTakeFlag(c)

\* Lines 155-162 with the flag set: "Scan is already in progress."
StartAlreadyScanning(c) ==
    /\ pc' = [pc EXCEPT ![c] = "returned"]
    /\ ret' = [ret EXCEPT ![c] = "ok"]
    /\ UNCHANGED << scanning, nSessions, sess >>

StartBegin(c) ==
    /\ Invoke(c, "start_scan")
    /\ IF scanning THEN StartAlreadyScanning(c) ELSE StartTakeFlag(c)
    /\ reply' = [reply EXCEPT ![c] = NoReply]
    /\ UNCHANGED << devices, daemon, timeout_task, daemon_vars, mdns,
                    timer_vars, session_vars, consumer, now, emit_vars,
                    eventsLeft, pollsLeft, faultsLeft, history_vars,
                    delivered >>

\* Lines 165-167.
StartAbort(c) ==
    /\ pc[c] = "start_abort"
    /\ AbortTaken(c, "start")
    /\ timeout_task' = 0
    /\ pc' = [pc EXCEPT ![c] = "start_clear"]
    /\ UNCHANGED << scanning, devices, daemon, daemon_vars, ret, op, reply,
                    local_vars, timer_i, session_vars, consumer, now, emit_vars,
                    budget_vars, history_vars,
                    call_vars, delivered >>

\* Lines 171-182: devices.clear(), then ServiceDaemon::new(), which touches
\* no shared state.
StartClear(c) ==
    /\ pc[c] = "start_clear"
    /\ devices' = EmptyMap
    /\ merged' = [a \in IpStrings |-> {}]
    /\ clearedBy' = sess[c]
    /\ UNCHANGED browseFailed
    /\ \/ /\ daemonStatus' = [daemonStatus EXCEPT ![sess[c]] = "running"]
          /\ pc' = [pc EXCEPT ![c] = "start_store"]
          /\ UNCHANGED faultsLeft
       \/ /\ faultsLeft > 0
          /\ faultsLeft' = faultsLeft - 1
          /\ pc' = [pc EXCEPT ![c] = "start_revert"]
          /\ UNCHANGED daemonStatus
    /\ UNCHANGED << scanning, daemon, timeout_task, daemonLock, ret, op, reply,
                    local_vars, timer_vars, session_vars, consumer, now,
                    emit_vars, callsLeft, eventsLeft, pollsLeft,
                    call_vars, delivered >>

\* The error return without line 179: the flag stays set.
StartRevertKeepsFlag(c) ==
    /\ pc[c] = "start_revert"
    /\ pc' = [pc EXCEPT ![c] = "returned"]
    /\ ret' = [ret EXCEPT ![c] = "err"]
    /\ sess' = [sess EXCEPT ![c] = 0]
    /\ UNCHANGED << state_vars, daemon_vars, op, reply, mdns,
                    nSessions, timer_vars, session_vars, consumer, now, emit_vars,
                    budget_vars, history_vars,
                    call_vars, delivered >>

\* Lines 179-180.
StartRevert(c) ==
    /\ pc[c] = "start_revert"
    /\ scanning' = FALSE
    /\ pc' = [pc EXCEPT ![c] = "returned"]
    /\ ret' = [ret EXCEPT ![c] = "err"]
    /\ sess' = [sess EXCEPT ![c] = 0]
    /\ UNCHANGED << devices, daemon, timeout_task, daemon_vars, op, reply, mdns,
                    nSessions, timer_vars, session_vars, consumer, now, emit_vars,
                    budget_vars, history_vars,
                    call_vars, delivered >>

\* Lines 184-187: the handle replaces whatever the slot held.
StartStore(c) ==
    /\ pc[c] = "start_store"
    /\ daemonLock = 0
    /\ daemon' = sess[c]
    /\ pc' = [pc EXCEPT ![c] = "start_browse"]
    /\ UNCHANGED << scanning, devices, timeout_task, daemon_vars, ret, op, reply,
                    local_vars, timer_vars, session_vars, consumer, now,
                    emit_vars, budget_vars, history_vars,
                    call_vars, delivered >>

\* The sets of service types whose browse (line 202) may fail together: any
\* of them while the fault bound allows a failure of the backend, and all of
\* them once the daemon is shut down.
BrowseFailures(d) ==
    (IF faultsLeft > 0 THEN SUBSET ServiceTypes ELSE { {} })
        \cup (IF daemonStatus[d] # "running" THEN { ServiceTypes } ELSE {})

\* A browse loop that gives up at the first failure.
BrowsedUntilFailure(F) == IF F = {} THEN ServiceTypes ELSE {}

\* Lines 202-217: the service types whose browse returned a receiver; the
\* failed ones are skipped by the `continue` of line 206.
Browsed(F) == ServiceTypes \ F

\* Lines 189-237: the clock is read, the set made, each service type browsed
\* and its receiver task spawned unless the browse failed, and the timeout
\* task spawned. None of it awaits.
StartBrowse(c) ==
    /\ pc[c] = "start_browse"
    /\ \E t \in now..MaxClock :
          /\ now' = t
          /\ scan_start_time' = [scan_start_time EXCEPT ![sess[c]] = t]
    /\ seen_services' = [seen_services EXCEPT ![sess[c]] = {}]
    /\ \E F \in BrowseFailures(sess[c]) :
          /\ consumer' = [k \in ConsumerKeys |->
                IF k[1] = sess[c] /\ k[2] \in Browsed(F)
                THEN IdleConsumer("recv") ELSE consumer[k]]
          /\ browseFailed' = [browseFailed EXCEPT ![sess[c]] = F]
          /\ faultsLeft' = IF F = {} \/ daemonStatus[sess[c]] # "running"
                           THEN faultsLeft ELSE faultsLeft - 1
    /\ pc' = [pc EXCEPT ![c] = "start_handle", ![TimerOf(sess[c])] = "spawned"]
    /\ UNCHANGED << state_vars, daemon_vars, ret, op, reply, local_vars,
                    timer_vars, emit_vars, callsLeft, eventsLeft, pollsLeft,
                    merged, clearedBy,
                    call_vars, delivered >>

\* Lines 239-241: the handle replaces whatever the slot held.
StartHandle(c) ==
    /\ pc[c] = "start_handle"
    /\ timeout_task' = sess[c]
    /\ pc' = [pc EXCEPT ![c] = "returned"]
    /\ ret' = [ret EXCEPT ![c] = "ok"]
    /\ sess' = [sess EXCEPT ![c] = 0]
    /\ UNCHANGED << scanning, devices, daemon, daemon_vars, op, reply, mdns,
                    nSessions, timer_vars, session_vars, consumer, now, emit_vars,
                    budget_vars, history_vars,
                    call_vars, delivered >>

\* ------------------------------------------------------------- stop_scan
\* stop_scan is entered by a host invocation or by the timeout task (line 234).
StopEntry(p) ==
    IF p \in Callers
    THEN Invoke(p, "stop_scan")
    ELSE /\ pc[p] = "stop_begin"
         /\ op' = [op EXCEPT ![p] = "stop_scan"]
         /\ UNCHANGED << callsLeft, call_vars >>

\* Lines 253-259 with the flag set: it is cleared and the guard dropped.
StopTakeFlag(p) ==
    /\ scanning' = FALSE
    /\ pc' = [pc EXCEPT ![p] = "stop_abort"]
    /\ ret' = [ret EXCEPT ![p] = "none"]

\* stop_scan without the early return of lines 254-257.
StopWithoutCheck(p) == StopTakeFlag(p)

\* Lines 253-259 with the flag clear: "Scan is not running."
StopAlreadyIdle(p) ==
    /\ pc' = [pc EXCEPT ![p] = FinishedPc(p)]
    /\ ret' = [ret EXCEPT ![p] = "ok"]
    /\ UNCHANGED scanning

\* Lines 252-259.
StopBegin(p) ==
    /\ StopEntry(p)
    /\ IF scanning THEN StopTakeFlag(p) ELSE StopAlreadyIdle(p)
    /\ reply' = [c \in Callers |-> IF c = p THEN NoReply ELSE reply[c]]
    /\ UNCHANGED << devices, daemon, timeout_task, daemon_vars, local_vars,
                    timer_vars, session_vars, consumer, now, emit_vars,
                    eventsLeft, pollsLeft, faultsLeft, history_vars,
                    delivered >>

\* Lines 262-264.
StopAbort(p) ==
    /\ pc[p] = "stop_abort"
    /\ AbortTaken(p, IF p \in Callers THEN "stop" ELSE "timer")
    /\ timeout_task' = 0
    /\ pc' = [pc EXCEPT ![p] = "stop_daemon"]
    /\ UNCHANGED << scanning, devices, daemon, daemon_vars, ret, op, reply,
                    local_vars, timer_i, session_vars, consumer, now, emit_vars,
                    budget_vars, history_vars,
                    call_vars, delivered >>

\* Line 266: the lock is taken and the slot emptied; with Some(mdns) the guard
\* lives on to the end of the if-let.
StopDaemon(p) ==
    /\ pc[p] = "stop_daemon"
    /\ daemonLock = 0
    /\ IF daemon = 0
       THEN /\ pc' = [pc EXCEPT ![p] = FinishedPc(p)]
            /\ ret' = [ret EXCEPT ![p] = "ok"]
            /\ UNCHANGED << daemon, daemonLock, mdns >>
       ELSE /\ mdns' = [mdns EXCEPT ![p] = daemon]
            /\ daemon' = 0
            /\ daemonLock' = p
            /\ pc' = [pc EXCEPT ![p] = "stop_shutdown"]
            /\ UNCHANGED ret
    /\ UNCHANGED << scanning, devices, timeout_task, daemonStatus, op, reply, sess,
                    nSessions, timer_vars, session_vars, consumer, now, emit_vars,
                    budget_vars, history_vars,
                    call_vars, delivered >>

\* Lines 267-276 when mdns.shutdown() succeeds: scan-stopped is emitted, the
\* guard dropped, Ok returned.
ShutdownOk(p) ==
    /\ daemonStatus' = [daemonStatus EXCEPT ![mdns[p]] = "shutdown"]
    /\ scan_stopped' = Append(scan_stopped, [by |-> p, daemon |-> mdns[p]])
    /\ ret' = [ret EXCEPT ![p] = "ok"]
    /\ UNCHANGED faultsLeft

\* A failed shutdown that is only logged: scan-stopped and Ok all the same.
ShutdownErrIgnored(p) ==
    /\ faultsLeft > 0
    /\ faultsLeft' = faultsLeft - 1
    /\ scan_stopped' = Append(scan_stopped, [by |-> p, daemon |-> mdns[p]])
    /\ ret' = [ret EXCEPT ![p] = "ok"]
    /\ UNCHANGED daemonStatus

\* Lines 267-270 when mdns.shutdown() fails: Err is returned.
ShutdownErr(p) ==
    /\ faultsLeft > 0
    /\ faultsLeft' = faultsLeft - 1
    /\ ret' = [ret EXCEPT ![p] = "err"]
    /\ UNCHANGED << daemonStatus, scan_stopped >>

\* A stop_scan that returns without giving the daemon mutex back.
StopShutdownKeepsLock(p) ==
    /\ pc[p] = "stop_shutdown"
    /\ ShutdownOk(p) \/ ShutdownErr(p)
    /\ mdns' = [mdns EXCEPT ![p] = 0]
    /\ pc' = [pc EXCEPT ![p] = FinishedPc(p)]
    /\ UNCHANGED << state_vars, daemonLock, op, reply, sess, nSessions, timer_vars,
                    session_vars, consumer, now, ticks, new_device, callsLeft,
                    eventsLeft, pollsLeft, history_vars,
                    call_vars, delivered >>

StopShutdown(p) ==
    /\ pc[p] = "stop_shutdown"
    /\ ShutdownOk(p) \/ ShutdownErr(p)
    /\ daemonLock' = 0
    /\ mdns' = [mdns EXCEPT ![p] = 0]
    /\ pc' = [pc EXCEPT ![p] = FinishedPc(p)]
    /\ UNCHANGED << state_vars, op, reply, sess, nSessions, timer_vars,
                    session_vars, consumer, now, ticks, new_device, callsLeft,
                    eventsLeft, pollsLeft, history_vars,
                    call_vars, delivered >>

\* ------------------------------------------------------- query commands
\* Lines 280-283.
is_scanning(c) ==
    /\ Invoke(c, "is_scanning")
    /\ reply' = [reply EXCEPT ![c] = [op |-> "is_scanning", flag |-> scanning, list |-> {}]]
    /\ pc' = [pc EXCEPT ![c] = "returned"]
    /\ ret' = [ret EXCEPT ![c] = "ok"]
    /\ UNCHANGED << state_vars, daemon_vars, local_vars, timer_vars, session_vars,
                    consumer, now, emit_vars, eventsLeft, pollsLeft, faultsLeft,
                    history_vars,
                    delivered >>

\* devices_guard.values().cloned().collect(): the records, in no fixed order.
Snapshot(devs) == { devs[k] : k \in DOMAIN devs }

\* Lines 286-290.
get_discovered_devices(c) ==
    /\ Invoke(c, "get_discovered_devices")
    /\ reply' = [reply EXCEPT ![c] =
          [op |-> "get_discovered_devices", flag |-> FALSE, list |-> Snapshot(devices)]]
    /\ pc' = [pc EXCEPT ![c] = "returned"]
    /\ ret' = [ret EXCEPT ![c] = "ok"]
    /\ UNCHANGED << state_vars, daemon_vars, local_vars, timer_vars, session_vars,
                    consumer, now, emit_vars, eventsLeft, pollsLeft, faultsLeft,
                    history_vars,
                    delivered >>

\* ------------------------------------------------------ the timeout task
\* First poll of the spawned task: i = 0 of the loop of line 223. A task
\* aborted before it is polled never runs.
TimerStart(s) ==
    /\ pc[TimerOf(s)] = "spawned"
    /\ ~aborted[s]
    /\ pollsLeft > 0
    /\ pollsLeft' = pollsLeft - 1
    /\ pc' = [pc EXCEPT ![TimerOf(s)] = "tick"]
    /\ UNCHANGED << state_vars, daemon_vars, ret, op, reply, local_vars,
                    timer_vars, session_vars, consumer, now, emit_vars,
                    callsLeft, eventsLeft, faultsLeft, history_vars,
                    call_vars, delivered >>

\* A tick that carries the seconds left after the wait to come: 29 down to 0.
TimerTickAfterWait(s) ==
    /\ pc[TimerOf(s)] = "tick"
    /\ ticks' = [ticks EXCEPT ![s] = Append(@, SCAN_DURATION_SECS - timer_i[s] - 1)]
    /\ pc' = [pc EXCEPT ![TimerOf(s)] = "sleep"]
    /\ UNCHANGED << state_vars, daemon_vars, ret, op, reply, local_vars,
                    timer_vars, session_vars, consumer, now, scan_stopped,
                    new_device, budget_vars, history_vars,
                    call_vars, delivered >>

\* Lines 224-229: scan-tick with seconds_left, up to the sleep.
TimerTick(s) ==
    /\ pc[TimerOf(s)] = "tick"
    /\ ticks' = [ticks EXCEPT ![s] = Append(@, SCAN_DURATION_SECS - timer_i[s])]
    /\ pc' = [pc EXCEPT ![TimerOf(s)] = "sleep"]
    /\ UNCHANGED << state_vars, daemon_vars, ret, op, reply, local_vars,
                    timer_vars, session_vars, consumer, now, scan_stopped,
                    new_device, budget_vars, history_vars,
                    call_vars, delivered >>

\* The sleep of line 229 is over and the task is polled again: the next
\* iteration, or past the loop into stop_scan (lines 232-234).
TimerWake(s) ==
    /\ pc[TimerOf(s)] = "sleep"
    /\ ~aborted[s]
    /\ pollsLeft > 0
    /\ pollsLeft' = pollsLeft - 1
    /\ timer_i' = [timer_i EXCEPT ![s] = @ + 1]
    /\ pc' = [pc EXCEPT ![TimerOf(s)] =
          IF timer_i[s] + 1 < SCAN_DURATION_SECS THEN "tick" ELSE "stop_begin"]
    /\ UNCHANGED << state_vars, daemon_vars, ret, op, reply, local_vars, aborted,
                    abortedBy, session_vars, consumer, now, emit_vars, callsLeft,
                    eventsLeft, faultsLeft, history_vars,
                    call_vars, delivered >>

\* Another process is at, or inside, a region of the mutex the task awaits.
LockContended(p) ==
    CASE pc[p] = "stop_begin" ->
            \E q \in Procs \ {p} : pc[q] \in { "idle", "stop_begin", "start_revert" }
      [] pc[p] = "stop_abort" ->
            \E q \in Procs \ {p} : pc[q] \in { "start_abort", "stop_abort", "start_handle" }
      [] pc[p] = "stop_daemon" ->
            \/ daemonLock \notin { 0, p }
            \/ \E q \in Procs \ {p} : pc[q] \in { "start_store", "stop_daemon" }
      [] OTHER -> FALSE

\* A task scheduled for cancellation and suspended before its first poll or
\* in the sleep never runs again: TimerStart and TimerWake are disabled.
Cancelled(s) ==
    \/ pc[TimerOf(s)] = "cancelled"
    \/ aborted[s] /\ pc[TimerOf(s)] \in { "spawned", "sleep" }

\* A running task scheduled for cancellation is dropped at the first
\* lock().await that has to wait.
TimerCancel(s) ==
    /\ aborted[s]
    /\ LockContended(TimerOf(s))
    /\ pc' = [pc EXCEPT ![TimerOf(s)] = "cancelled"]
    /\ UNCHANGED << state_vars, daemon_vars, ret, op, reply, local_vars,
                    timer_vars, session_vars, consumer, now, emit_vars,
                    budget_vars, history_vars,
                    call_vars, delivered >>

\* ------------------------------------------------- the receiver tasks
\* Lines 59-66: find_map over the address set, which has no fixed order.
Candidates(info) == { to_string(a) : a \in { b \in info.addresses : Qualifies(b) } }

\* An insert that reports every key as new.
InsertedAlways(seen, key) == TRUE

\* HashSet::insert of line 70: true when the key was not in the set.
Inserted(seen, key) == key \notin seen

\* Lines 66 and 70-72: the handler returns and leaves everything as it was.
Drop(s, st) ==
    UNCHANGED << consumer, seen_services, now >>

\* Lines 70-85: the key goes into the set; device type, name and port are
\* taken from the event and the elapsed time is read.
Admit(s, st, info, ip) ==
    /\ seen_services' = [seen_services EXCEPT ![s] = @ \cup {service_key(ip, st)}]
    /\ \E t \in now..MaxClock :
          /\ now' = t
          /\ consumer' = [consumer EXCEPT ![<<s, st>>] =
                [pc |-> "merge", info |-> info, ip |-> ip,
                 elapsed_ms |-> t - scan_start_time[s]]]

Delivery(s, st, info, ip, outcome) ==
    [session |-> s, service_type |-> st, info |-> info, ip |-> ip,
     outcome |-> outcome]

\* Lines 130-131 and 59-85: a ServiceResolved event arrives and is filtered
\* by address and by the seen_services set, which only this task's own
\* earlier events can have filled with keys of its service type. Events keep
\* arriving until the daemon thread, told to exit, has closed the streams.
Recv(s, st) ==
    /\ consumer[<<s, st>>].pc = "recv"
    /\ daemonStatus[s] \in { "running", "shutdown" }
    /\ eventsLeft > 0
    /\ eventsLeft' = eventsLeft - 1
    /\ \E info \in Infos(st) :
          IF Candidates(info) = {}
          THEN /\ Drop(s, st)
               /\ delivered' = Append(delivered, Delivery(s, st, info, "", "unaddressed"))
          ELSE \E ip \in Candidates(info) :
                  IF Inserted(seen_services[s], service_key(ip, st))
                  THEN /\ Admit(s, st, info, ip)
                       /\ delivered' = Append(delivered, Delivery(s, st, info, ip, "admitted"))
                  ELSE /\ Drop(s, st)
                       /\ delivered' = Append(delivered, Delivery(s, st, info, ip, "duplicate"))
    /\ UNCHANGED << state_vars, daemon_vars, proc_vars, local_vars, timer_vars,
                    scan_start_time, emit_vars, callsLeft, pollsLeft, faultsLeft,
                    history_vars, call_vars >>

\* Lines 96-118: the merge under the devices lock, then new-device with the
\* snapshot taken under it.
Merge(s, st) ==
    LET me == consumer[<<s, st>>]
        merged_map == MergeInto(devices, me.ip, DisplayName(me.info.fullname), st,
                                me.info.port,
                                resolve_device_type(st, me.info.fullname),
                                me.elapsed_ms)
    IN /\ me.pc = "merge"
       /\ devices' = merged_map
       /\ new_device' = Append(new_device,
             [session |-> s, service_type |-> st, device |-> merged_map[me.ip]])
       /\ consumer' = [consumer EXCEPT ![<<s, st>>] = IdleConsumer("recv")]
       /\ merged' = [merged EXCEPT ![me.ip] = @ \cup
             { [session |-> s, service_type |-> st, elapsed_ms |-> me.elapsed_ms] }]
       /\ UNCHANGED << scanning, daemon, timeout_task, daemon_vars, proc_vars,
                       local_vars, timer_vars, session_vars, now, ticks,
                       scan_stopped, budget_vars, clearedBy, browseFailed,
                    call_vars, delivered >>

\* shutdown() only sends the exit command: the daemon thread ends later and
\* closes every receiver of its browses.
DaemonExit(d) ==
    /\ daemonStatus[d] = "shutdown"
    /\ daemonStatus' = [daemonStatus EXCEPT ![d] = "exited"]
    /\ UNCHANGED << state_vars, daemonLock, proc_vars, local_vars, timer_vars,
                    session_vars, consumer, now, emit_vars, budget_vars,
                    history_vars, call_vars, delivered >>

\* Lines 130 and 143: with the streams closed recv_async fails and the task
\* ends; Recv is disabled.
Disconnected(s, st) ==
    consumer[<<s, st>>].pc = "recv" /\ daemonStatus[s] = "exited"

\* ------------------------------------------------------- specification
Next ==
    \/ \E c \in Callers :
          \/ StartBegin(c) \/ StartAbort(c) \/ StartClear(c) \/ StartRevert(c)
          \/ StartStore(c) \/ StartBrowse(c) \/ StartHandle(c)
          \/ is_scanning(c) \/ get_discovered_devices(c)
    \/ \E p \in Procs :
          \/ StopBegin(p) \/ StopAbort(p) \/ StopDaemon(p) \/ StopShutdown(p)
    \/ \E s \in Sessions :
          \/ TimerStart(s) \/ TimerTick(s) \/ TimerWake(s) \/ TimerCancel(s)
    \/ \E d \in Sessions : DaemonExit(d)
    \/ \E s \in Sessions, st \in ServiceTypes :
          \/ Recv(s, st) \/ Merge(s, st)

Spec == Init /\ [][Next]_vars

\* The steps of a command once it is invoked, and of stop_scan run by a
\* timeout task once it holds the scanning flag.
CommandStep(p) ==
    \/ p \in Callers /\ ( \/ StartAbort(p) \/ StartClear(p) \/ StartRevert(p)
                          \/ StartStore(p) \/ StartBrowse(p) \/ StartHandle(p) )
    \/ StopAbort(p) \/ StopDaemon(p) \/ StopShutdown(p)

\* The runtime keeps polling a task that can run, and the mutexes hand the
\* lock to a waiting task once it is free.
Fairness == \A p \in Procs : WF_vars(CommandStep(p))

\* The three kinds of behaviours again, with fewer events.
FairInit ==
    \/ InitWith(MaxCalls, FairEvents, 0, 0)
    \/ InitWith(CountdownCalls, 0, MaxSessions * (SCAN_DURATION_SECS + 1), 0)
    \/ InitWith(MaxCalls, 0, 0, MaxFaults)

FairSpec == FairInit /\ [][Next]_vars /\ Fairness

\* ------------------------------------------------------------- properties
\* The step in which the host invokes command name through caller c.
Invokes(c, name) ==
    /\ callsLeft' = callsLeft - 1
    /\ invoked' = c
    /\ op'[c] = name

TimerPcs == [s \in Sessions |-> pc[TimerOf(s)]]

\* C1: start_scan invoked while the scanning flag is set returns Ok and leaves
\* the flag, the device map, every seen_services set, the daemon slot and the
\* timeout_task slot as they were, and spawns neither a receiver task nor a
\* timeout task.
C1_StartWhileScanningIsNoop ==
    [][\A c \in Callers :
          (Invokes(c, "start_scan") /\ scanning) =>
             /\ pc'[c] = "returned" /\ ret'[c] = "ok"
             /\ UNCHANGED << scanning, devices, seen_services, daemon, timeout_task,
                             daemonStatus, consumer, TimerPcs, aborted, nSessions,
                             emit_vars >>]_vars

\* Two start_scan calls have returned Ok, one session was begun and its
\* devices are still in the map.
C1_Witness ==
    /\ \A c \in Callers : op[c] = "start_scan" /\ pc[c] = "returned" /\ ret[c] = "ok"
    /\ nSessions = 1
    /\ scanning
    /\ devices # EmptyMap

\* C2: stop_scan invoked while the scanning flag is clear returns Ok and leaves
\* the flag clear and the timeout_task and daemon slots untouched, shuts no
\* daemon down and emits no scan-stopped.
C2_StopWhileIdleIsNoop ==
    [][\A c \in Callers :
          (Invokes(c, "stop_scan") /\ ~scanning) =>
             /\ pc'[c] = "returned" /\ ret'[c] = "ok"
             /\ ~scanning'
             /\ UNCHANGED << timeout_task, daemon, daemonLock, daemonStatus, aborted,
                             scan_stopped, devices >>]_vars

\* Both callers' stop_scan returned Ok after one session, and only one
\* scan-stopped was emitted: one of the two found the flag clear.
C2_Witness ==
    /\ \A c \in Callers : op[c] = "stop_scan" /\ pc[c] = "returned" /\ ret[c] = "ok"
    /\ nSessions = 1
    /\ Len(scan_stopped) = 1
    /\ stopsCalled = 2

\* The command of every caller has returned: no start_scan or stop_scan is
\* part-way through.
NoCallInProgress == \A c \in Callers : pc[c] \in { "idle", "returned" }

\* No receiver task stands between its dedup test and its merge.
NoMergePending == \A k \in ConsumerKeys : consumer[k].pc # "merge"

\* C3: once a start_scan that found the flag clear has cleared the device
\* map, no entry merged by a receiver task of an earlier session is in the
\* map or in what get_discovered_devices returns, and no key of an earlier
\* session's seen_services set makes an event of the new session a duplicate.
C3_NewSessionDiscardsOldDevices ==
    /\ \A a \in DOMAIN devices : \A m \in merged[a] : m.session = clearedBy
    /\ \A k \in 1..Len(delivered) :
          delivered[k].outcome = "duplicate" =>
             \E j \in 1..(k - 1) :
                /\ delivered[j].outcome = "admitted"
                /\ delivered[j].session = delivered[k].session
                /\ delivered[j].service_type = delivered[k].service_type
                /\ delivered[j].ip = delivered[k].ip

\* The deliveries before the k-th with its session, service type and address.
EarlierSameKey(k) ==
    { j \in 1..(k - 1) :
         /\ delivered[j].session = delivered[k].session
         /\ delivered[j].service_type = delivered[k].service_type
         /\ delivered[j].ip = delivered[k].ip }

\* C4: within one session at most one event per (address, service type) is
\* admitted, merged into the device map and announced by new-device, however
\* many events with that key are delivered.
C4_OneAdmissionPerKey ==
    /\ \A k \in 1..Len(delivered) :
          (delivered[k].outcome = "admitted") => (EarlierSameKey(k) = {})
    /\ \A i, j \in 1..Len(new_device) :
          ( /\ new_device[i].session = new_device[j].session
            /\ new_device[i].service_type = new_device[j].service_type
            /\ new_device[i].device.ip = new_device[j].device.ip ) => i = j
    /\ Len(new_device) + Cardinality({ k \in ConsumerKeys : consumer[k].pc = "merge" })
          = Cardinality({ k \in 1..Len(delivered) : delivered[k].outcome = "admitted" })

\* A second event with the key of a merged and announced one was delivered and
\* dropped.
C4_Witness ==
    \E k \in 1..Len(delivered) :
       /\ delivered[k].outcome = "duplicate"
       /\ EarlierSameKey(k) # {}
       /\ \E n \in 1..Len(new_device) :
             /\ new_device[n].session = delivered[k].session
             /\ new_device[n].service_type = delivered[k].service_type
             /\ new_device[n].device.ip = delivered[k].ip

\* The entry of a device for a service type; the device has one.
EntryOf(device, service_type) ==
    device.services[Least(Matching(device.services, service_type))]

\* C5: after a repeat event for an (address, service type) whose entry is
\* already on the device has been processed, that entry carries the repeat
\* event's port.
C5_RepeatOverwritesEntry ==
    (Len(delivered) > 0 /\ NoMergePending) =>
       LET k == Len(delivered)
           last == delivered[k]
       IN ( /\ EarlierSameKey(k) # {}
            /\ last.ip \in DOMAIN devices
            /\ Matching(devices[last.ip].services, last.service_type) # {} ) =>
               EntryOf(devices[last.ip], last.service_type).port = last.info.port

Min(S) == CHOOSE x \in S : \A y \in S : x <= y

\* C6: the discovery_time_ms of every device is the least elapsed_ms merged
\* for its address since the map was last cleared, and it does not grow while
\* the device stays in the map.
C6_DiscoveryTimeIsMinimum ==
    /\ [](\A a \in DOMAIN devices :
             /\ merged[a] # {}
             /\ devices[a].discovery_time_ms = Min({ m.elapsed_ms : m \in merged[a] }))
    /\ [][\A a \in (DOMAIN devices) \cap (DOMAIN devices') :
             devices'[a].discovery_time_ms <= devices[a].discovery_time_ms]_vars

\* A device whose discovery time went down: its first entry was merged with a
\* later elapsed time than a merge that followed.
C6_Witness ==
    \E a \in DOMAIN devices :
       /\ Len(devices[a].services) = 2
       /\ devices[a].services[1].last_seen_ms > devices[a].discovery_time_ms
       /\ devices[a].services[2].last_seen_ms = devices[a].discovery_time_ms

\* C7: the record under key a has address a, a device has at most one entry
\* per service type, and the entries of a device are those of the service
\* types merged for its address, one each, in whichever order they came.
C7_OneDevicePerAddressOneEntryPerType ==
    \A a \in DOMAIN devices :
       LET services == devices[a].services IN
       /\ devices[a].ip = a
       /\ \A i, j \in 1..Len(services) :
             services[i].service_type = services[j].service_type => i = j
       /\ { services[i].service_type : i \in 1..Len(services) }
             = { m.service_type : m \in merged[a] }

\* One device with the entries of two service types, the one browsed second
\* merged first.
C7_Witness ==
    /\ DOMAIN devices = { "10.0.0.5" }
    /\ Len(devices["10.0.0.5"].services) = 2
    /\ devices["10.0.0.5"].services[1].service_type = VOLUMIO_SERVICE_TYPE
    /\ devices["10.0.0.5"].services[2].service_type = BLUESOUND_SERVICE_TYPE

\* An address that is IPv4 and outside 169.254.0.0/16.
NonLinkLocalIPv4(a) == a.v4 /\ ~(a.octets[1] = 169 /\ a.octets[2] = 254)

\* C8: the step that processes an event none of whose addresses is a
\* non-link-local IPv4 address changes no seen_services set, not the device
\* map and no notification, and starts no merge; and an event that has such an
\* address is admitted unless an earlier one of its session had its key.
C8_UnaddressedEventIsDropped ==
    /\ [][(Len(delivered') = Len(delivered) + 1
           /\ \A a \in delivered'[Len(delivered')].info.addresses : ~NonLinkLocalIPv4(a))
          => UNCHANGED << seen_services, devices, emit_vars, consumer >>]_vars
    /\ [](\A k \in 1..Len(delivered) :
             ( /\ \E a \in delivered[k].info.addresses : NonLinkLocalIPv4(a)
               /\ \A j \in EarlierSameKey(k) : delivered[j].outcome # "admitted" )
             => delivered[k].outcome = "admitted")

\* The service is announced with link-local and IPv6 addresses only and
\* dropped, then announced with a routable address, admitted and merged.
C8_Witness ==
    /\ Len(delivered) = 2
    /\ delivered[1].outcome = "unaddressed"
    /\ delivered[2].outcome = "admitted"
    /\ delivered[1].session = delivered[2].session
    /\ delivered[1].service_type = delivered[2].service_type
    /\ delivered[1].info.fullname = delivered[2].info.fullname
    /\ Len(new_device) = 1
    /\ DOMAIN devices = { delivered[2].ip }

\* C9: once a stop_scan invoked during the countdown of a session, after a
\* scan-tick of it, has cancelled the countdown and returned, no scan-tick of
\* that session is emitted and its timeout task does not enter stop_scan.
C9_StopSilencesCountdown ==
    [][\A s \in Sessions :
          (abortedBy[s] = "stop" /\ NoCallInProgress /\ ticksAtStop[s] > 0) =>
             /\ ticks'[s] = ticks[s]
             /\ op'[TimerOf(s)] = op[TimerOf(s)]]_vars

\* The timeout task of session s will take no further step.
TimerAtRest(s) ==
    \/ pc[TimerOf(s)] \in { "unspawned", "finished", "cancelled" }
    \/ aborted[s] /\ pc[TimerOf(s)] \in { "spawned", "sleep" }

\* C10: when stop_scan was never invoked by the host, every command has
\* returned and every timeout task has run to its end, the scanning flag is
\* clear, the daemon slot is empty, every daemon that was created has been
\* shut down and one scan-stopped was emitted for each.
C10_CountdownEndsSession ==
    (stopsCalled = 0 /\ NoCallInProgress /\ \A s \in Sessions : TimerAtRest(s)) =>
       /\ ~scanning
       /\ daemon = 0
       /\ \A d \in Sessions : daemonStatus[d] # "running"
       /\ Len(scan_stopped) = Cardinality({ d \in Sessions : daemonStatus[d] # "none" })

\* The timeout tasks that exist and on which abort() was never called.
UncancelledTimers ==
    { s \in Sessions :
         /\ pc[TimerOf(s)] \notin { "unspawned", "finished", "cancelled" }
         /\ ~aborted[s] }

\* C11: at most one timeout task that was not cancelled exists at any time:
\* the task of an earlier start_scan was aborted or has finished before a
\* later start_scan spawns and stores its own.
C11_AtMostOneCountdown == Cardinality(UncancelledTimers) <= 1

\* The one caller that has used the commands so far has just had start_scan
\* return an error.
StartJustFailed ==
    \E c \in Callers :
       /\ op[c] = "start_scan" /\ pc[c] = "returned" /\ ret[c] = "err"
       /\ \A b \in Callers \ {c} : pc[b] = "idle"

\* C12: a start_scan whose ServiceDaemon::new() fails returns Err with the
\* scanning flag clear and has stored no daemon, spawned no receiver task and
\* no timeout task and emitted nothing; after it the slots are empty and the
\* next start_scan goes ahead instead of returning as already scanning.
C12_FailedInitLeavesIdle ==
    /\ [][\A c \in Callers :
             (\/ pc[c] = "start_clear" /\ pc'[c] = "start_revert"
              \/ pc[c] = "start_revert" /\ pc'[c] = "returned") =>
                /\ pc'[c] = "returned" => (ret'[c] = "err" /\ ~scanning')
                /\ UNCHANGED << daemon, timeout_task, daemonStatus, consumer,
                                TimerPcs, emit_vars >>]_vars
    /\ [](StartJustFailed =>
             /\ ~scanning /\ daemon = 0 /\ timeout_task = 0
             /\ daemonStatus[nSessions] = "none"
             /\ pc[TimerOf(nSessions)] = "unspawned"
             /\ \A st \in ServiceTypes : consumer[<<nSessions, st>>].pc = "unspawned")
    /\ [][\A c \in Callers :
             (StartJustFailed /\ Invokes(c, "start_scan")) =>
                pc'[c] = "start_abort"]_vars

\* The first start_scan failed at ServiceDaemon::new(), the next one created
\* its daemon and returned Ok.
C12_Witness ==
    /\ nSessions = 2
    /\ daemonStatus = << "none", "running" >>
    /\ stopsCalled = 0
    /\ \E c \in Callers : op[c] = "start_scan" /\ pc[c] = "returned" /\ ret[c] = "ok"
    /\ scanning /\ daemon = 2 /\ timeout_task = 2

\* The one caller that has used the commands so far has just had stop_scan
\* return an error.
StopJustFailed ==
    \E c \in Callers :
       /\ op[c] = "stop_scan" /\ pc[c] = "returned" /\ ret[c] = "err"
       /\ \A b \in Callers \ {c} : pc[b] = "idle"

\* C13: the step in which mdns.shutdown() fails for a caller's stop_scan
\* returns Err and emits no scan-stopped; by then the flag is clear, the
\* timeout task aborted and both slots empty; the next stop_scan returns Ok
\* and changes nothing.
C13_FailedShutdownLeavesIdle ==
    /\ [][\A c \in Callers :
             (pc[c] = "stop_shutdown" /\ pc'[c] = "returned" /\ faultsLeft' < faultsLeft) =>
                /\ ret'[c] = "err"
                /\ UNCHANGED << scanning, daemon, timeout_task, aborted, emit_vars >>]_vars
    /\ [](StopJustFailed =>
             /\ ~scanning /\ daemon = 0 /\ timeout_task = 0
             /\ aborted[nSessions]
             /\ \A k \in 1..Len(scan_stopped) : scan_stopped[k].daemon # nSessions)
    /\ [][\A c \in Callers :
             (StopJustFailed /\ Invokes(c, "stop_scan")) =>
                /\ pc'[c] = "returned" /\ ret'[c] = "ok"
                /\ UNCHANGED << scanning, daemon, timeout_task, daemonStatus, aborted,
                                emit_vars >>]_vars

\* stop_scan returned Err for the failed shutdown of daemon 1, and the
\* stop_scan after it returned Ok; no scan-stopped was emitted.
C13_Witness ==
    /\ nSessions = 1 /\ stopsCalled = 2
    /\ daemonStatus[1] = "running" /\ daemon = 0
    /\ aborted[1]
    /\ scan_stopped = <<>>
    /\ \E c \in Callers :
          /\ op[c] = "stop_scan" /\ pc[c] = "returned" /\ ret[c] = "ok"
          /\ \A b \in Callers \ {c} : pc[b] = "idle"

\* The service types for which session s has a receiver task.
SpawnedFor(s) == { st \in ServiceTypes : consumer[<<s, st>>].pc # "unspawned" }

\* The one caller that has used the commands so far has just had start_scan
\* return Ok for the session it set up, whose timeout task has not come to
\* its end; no earlier timeout task is still running.
StartJustSucceeded ==
    \E c \in Callers :
       /\ op[c] = "start_scan" /\ pc[c] = "returned" /\ ret[c] = "ok"
       /\ timeout_task = nSessions /\ nSessions > 0
       /\ op[TimerOf(nSessions)] = "none"
       /\ \A s \in Sessions \ {nSessions} : TimerAtRest(s)
       /\ \A b \in Callers \ {c} : pc[b] = "idle"

\* C14: whichever service types fail to browse, the browse step of start_scan
\* spawns one receiver task for each of the others and none for the failed
\* ones, spawns the timeout task and leaves the flag alone; start_scan then
\* returns Ok, with the session scanning.
C14_BrowseFailureIsNotFatal ==
    /\ [][\A c \in Callers :
             (pc[c] = "start_browse" /\ pc'[c] # pc[c]) =>
                /\ pc'[c] = "start_handle"
                /\ SpawnedFor(sess[c])' = ServiceTypes \ browseFailed'[sess[c]]
                /\ \A st \in SpawnedFor(sess[c])' : consumer'[<<sess[c], st>>].pc = "recv"
                /\ pc'[TimerOf(sess[c])] = "spawned"
                /\ UNCHANGED scanning]_vars
    /\ [][\A c \in Callers :
             (pc[c] = "start_handle" /\ pc'[c] # pc[c]) =>
                /\ pc'[c] = "returned" /\ ret'[c] = "ok"
                /\ UNCHANGED scanning]_vars
    /\ [](StartJustSucceeded =>
             /\ scanning
             /\ SpawnedFor(nSessions) = ServiceTypes \ browseFailed[nSessions]
             /\ pc[TimerOf(nSessions)] # "unspawned")

\* Two of the four browses failed on a running daemon, and start_scan
\* returned Ok with the other two receiver tasks and the timeout task.
C14_Witness ==
    /\ StartJustSucceeded
    /\ nSessions = 1
    /\ daemonStatus[1] = "running"
    /\ browseFailed[1] = { VOLUMIO_SERVICE_TYPE, QOBUZ_CONNECT_SERVICE_TYPE }
    /\ SpawnedFor(1) = { BLUESOUND_SERVICE_TYPE, SPOTIFY_CONNECT_SERVICE_TYPE }
    /\ pc[TimerOf(1)] = "spawned"
    /\ scanning

\* All four browses failed on a running daemon, and start_scan returned Ok
\* with the timeout task and no receiver task.
C14_AllFailed ==
    /\ StartJustSucceeded
    /\ daemonStatus[nSessions] = "running"
    /\ browseFailed[nSessions] = ServiceTypes
    /\ SpawnedFor(nSessions) = {}

\* C15: a task holds no lock of the shared state in the step in which it
\* creates a daemon, browses, shuts a daemon down or emits scan-tick,
\* scan-stopped or new-device. The daemon mutex is the one lock held from one
\* step to the next; receiver tasks never take it.
C15_NoLockAcrossBackendOrEmit ==
    [][/\ \A c \in Callers :
             (pc[c] \in { "start_clear", "start_browse" } /\ pc'[c] # pc[c]) =>
                daemonLock # c
       /\ \A s \in Sessions : ticks'[s] # ticks[s] => daemonLock # TimerOf(s)
       /\ \A p \in Procs :
             (pc[p] = "stop_shutdown" /\ pc'[p] # pc[p]) => daemonLock # p
       /\ scan_stopped' # scan_stopped =>
             daemonLock # scan_stopped'[Len(scan_stopped')].by]_vars

\* The command of process p is under way.
InProgress(p) == pc[p] \notin { "idle", "returned", "unspawned", "spawned", "tick",
                                "sleep", "stop_begin", "finished", "cancelled" }

\* C16: every command that is under way returns, and at every moment it can
\* take its next step or waits for the daemon mutex, whose holder can take
\* its own; no step of a command waits for a receiver task or a timeout task.
C16_CommandsReturn ==
    /\ \A c \in Callers : [](InProgress(c) => <>(pc[c] = "returned"))
    /\ [](\A p \in Procs :
             InProgress(p) =>
                \/ ENABLED CommandStep(p)
                \/ /\ pc[p] \in { "start_store", "stop_daemon" }
                   /\ daemonLock \in Procs \ {p}
                   /\ pc[daemonLock] = "stop_shutdown"
                   /\ ENABLED CommandStep(daemonLock))

\* A start_scan waits to store its daemon while a stop_scan holds the daemon
\* mutex over its shutdown.
C16_Witness ==
    \E c \in Callers :
       /\ pc[c] = "start_store"
       /\ daemonLock \in Procs \ {c}
       /\ ~ENABLED CommandStep(c)

\* C17: a caller's stop_scan that found the flag set and returns Ok has shut
\* a running daemon down and emitted one scan-stopped, also when it ran while
\* a start_scan was between setting the flag and storing its handles.
C17_StopShutsDaemonDown ==
    [][\A c \in Callers :
          ( /\ pc[c] \in { "stop_daemon", "stop_shutdown" }
            /\ pc'[c] = "returned" /\ ret'[c] = "ok" ) =>
             /\ Len(scan_stopped') = Len(scan_stopped) + 1
             /\ \E d \in Sessions :
                   daemonStatus[d] = "running" /\ daemonStatus'[d] = "shutdown"]_vars

\* 30, 29, ... : the first n values of the countdown.
Countdown(n) == [k \in 1..n |-> 31 - k]

\* C18: the scan-ticks of a session are 30, 29, ... in this order, none
\* twice, none below 1; one is out before the first sleep; a timeout task
\* that goes on to stop_scan has emitted all 30.
C18_TicksCountDown ==
    \A s \in Sessions :
       /\ Len(ticks[s]) <= 30
       /\ ticks[s] = Countdown(Len(ticks[s]))
       /\ \A k \in 1..Len(ticks[s]) : ticks[s][k] >= 1
       /\ pc[TimerOf(s)] = "sleep" => Len(ticks[s]) = timer_i[s] + 1
       /\ (pc[TimerOf(s)] = "stop_begin" \/ op[TimerOf(s)] = "stop_scan") =>
             ticks[s] = Countdown(30)

\* A timeout task has emitted 30 down to 1 and gone through stop_scan.
C18_Witness ==
    \E s \in Sessions :
       /\ op[TimerOf(s)] = "stop_scan"
       /\ pc[TimerOf(s)] = "finished"
       /\ Len(ticks[s]) = 30
       /\ ticks[s][1] = 30 /\ ticks[s][30] = 1

\* No start_scan or stop_scan is under way, by a caller or by a timeout task.
NoStartOrStopInProgress ==
    /\ NoCallInProgress
    /\ \A t \in Timers : pc[t] \notin { "stop_begin", "stop_abort", "stop_daemon",
                                       "stop_shutdown" }

\* C19: when no start_scan or stop_scan is under way, a clear flag goes with
\* an empty daemon slot, no running daemon and no timeout task that was not
\* cancelled, and a set flag with a running daemon in the slot and a timeout
\* task that was not cancelled.
C19_ResourcesAgreeWithFlag ==
    NoStartOrStopInProgress =>
       IF scanning
       THEN /\ daemon # 0
            /\ daemonStatus[daemon] = "running"
            /\ UncancelledTimers # {}
       ELSE /\ daemon = 0
            /\ \A d \in Sessions : daemonStatus[d] # "running"
            /\ UncancelledTimers = {}

\* C20: every device in the map has at least one service entry, and its
\* discovery_time_ms is at most the last_seen_ms of each of them, also when
\* receiver tasks of an earlier session merge into it.
C20_DiscoveryTimeBoundsLastSeen ==
    \A a \in DOMAIN devices :
       /\ Len(devices[a].services) >= 1
       /\ \A k \in 1..Len(devices[a].services) :
             devices[a].discovery_time_ms <= devices[a].services[k].last_seen_ms

\* A device with entries merged by receiver tasks of two sessions, one of
\* them last seen after the discovery time.
C20_Witness ==
    \E a \in DOMAIN devices :
       /\ { m.session : m \in merged[a] } = { 1, 2 }
       /\ Len(devices[a].services) = 2
       /\ \E k \in 1..2 :
             devices[a].services[k].last_seen_ms > devices[a].discovery_time_ms

====
